---- MODULE Spec2Model ----
(***************************************************************************)
(* The CDP client of scripts/cdp.js: the class CDP (identifier counter,    *)
(* pending callbacks, per-call timers, event handlers, message listener)   *)
(* and the connection establishment of connect().                          *)
(*                                                                         *)
(* Spec          the client, request/response side in full                 *)
(* SpecBus       the client, event side in full                            *)
(* SpecReentrant events whose handlers call on()/off() during emit         *)
(* SpecEval      evaluate and evaluateInFrame over send and the listener   *)
(* SpecConnect   connect(timeout), for every endpoint and runtime          *)
(* SpecLive      sends, replies and close where armed timers do fire       *)
(***************************************************************************)
EXTENDS Integers, Sequences, FiniteSets, TLC

\* ------------------------------------------------------------ bounds
\* The number of send calls one behaviour issues.
MaxCalls == 2

\* The number of send calls a behaviour of the event-bus specification issues.
MaxBusCalls == 1

\* The number of handler calls of one emit that are followed; an emit that
\* makes more is one whose loop does not end.
MaxVisits == 6

\* ------------------------------------------------------------ inputs
\* Method names, used by send(method, ...), on(method, ...) and inbound frames.
Methods == {"m1", "m2"}

\* Handler functions callers pass to on()/off().
Handlers == {"h1", "h2"}

\* What a handler does when called: "h2" raises an error, "h1" returns.
Throws(h) == h = "h2"

\* Handlers that change the subscriptions of the method they are called for:
\* "h3" unsubscribes itself and subscribes itself again (off, then on), "h4"
\* unsubscribes "h1".
ReentrantHandlers == {"h3", "h4"}
Resubscribes(h) == h = "h3"
Unsubscribes(h) == IF h = "h4" THEN "h1" ELSE ""

\* The sessionId argument of send: null ("") or a session.
SessionIds == {"", "s1"}

IdText(k) == ToString(k)

\* The result payload and the error message the remote side puts in the reply
\* with identifier k.
ResultOf(k) == "result-" \o IdText(k)
ErrorOf(k) == "remote-error-" \o IdText(k)

\* A frame as the transport delivers it. json is what JSON.parse makes of the
\* text: "invalid" (SyntaxError), "null", "scalar" (a number or string) or
\* "object"; the other fields are those of the object, "" / 0 when absent
\* (an id of 0 and an absent id are alike to `msg.id &&`).
Frame(j, i, m, e, r, p, s) ==
    [json |-> j, id |-> i, method |-> m, error |-> e, result |-> r,
     params |-> p, sessionId |-> s]

NoFrame == Frame("none", 0, "", "", "", "", "")

ReplyFrames ==
    { Frame("object", k, "", "", ResultOf(k), "", "") : k \in 1..MaxCalls } \cup
    { Frame("object", k, "", ErrorOf(k), ResultOf(k), "", "") : k \in 1..MaxCalls }

\* An event with neither params nor sessionId, and one with both.
EventFrames ==
    { Frame("object", 0, m, "", "", "", "") : m \in Methods } \cup
    { Frame("object", 0, m, "", "", "p1", "s1") : m \in Methods }

\* Frames that carry both an id and a method.
HybridFrames ==
    { Frame("object", k, "m1", "", ResultOf(k), "", "") : k \in 1..MaxCalls }

OtherFrames ==
    { Frame("invalid", 0, "", "", "", "", ""),
      Frame("null", 0, "", "", "", "", ""),
      Frame("scalar", 0, "", "", "", "", ""),
      Frame("object", 0, "", "", "", "", "") }

Frames == ReplyFrames \cup EventFrames \cup HybridFrames \cup OtherFrames

\* ------------------------------------------------------------ state
VARIABLES
    ws,             \* the socket: "open", "closing" (close() called), "closed"
    id,             \* this.id
    callbacks,      \* this.callbacks: msgId -> the send call whose closures it holds
    timers,         \* the send calls whose setTimeout is armed
    calls,          \* per send call (1..ncalls): its msgId and method
    promise,        \* per send call: the state of the promise send returned
    settles,        \* per send call: how often its resolve/reject was invoked
    eventHandlers,  \* this.eventHandlers: method -> handlers in insertion order
    delivered,      \* the handler invocations of the last step
    escaped,        \* whether the last step's message callback ended by throwing
    hung,           \* whether the message callback is still inside emit (it never returns)
    last,           \* the last operation and its argument
    endpoint,       \* connect: LIGHTPANDA_CDP_URL / CDP_WS_URL, or NoUrl when unset
    wsImpl,         \* connect: the WebSocket of the runtime: "native", "package" (ws) or "none"
    cpc,            \* connect: the await it is suspended at, or "connected" / "failed"
    netOps,         \* connect: the network operations started so far, in order
    sockets,        \* connect: the sockets created so far and their state
    cresult,        \* connect: what the promise of connect settled with
    heard,          \* connect: what the outside world answered so far, in order
    ev              \* evaluate / evaluateInFrame: the call in progress and its outcome

cvars == <<endpoint, wsImpl, cpc, netOps, sockets, cresult, heard>>

vars == <<ws, id, callbacks, timers, calls, promise, settles, eventHandlers,
          delivered, escaped, hung, last, endpoint, wsImpl, cpc, netOps, sockets,
          cresult, heard, ev>>

clientVars == <<ws, id, callbacks, timers, calls, promise, settles, eventHandlers,
                delivered, escaped, hung, last>>

CallIds == 1..MaxCalls

Pending == [state |-> "pending", value |-> ""]
Resolved(v) == [state |-> "resolved", value |-> v]
Rejected(m) == [state |-> "rejected", value |-> m]

\* A promise's resolve/reject acts only while the promise is pending.
Settle(p, outcome) == IF p.state = "pending" THEN outcome ELSE p

\* `CDP timeout: ${method}`
TimeoutMessage(method) == "CDP timeout: " \o method

\* The error a transport raises when asked to write on a socket that is not open.
WriteError == "WebSocket is not open"

\* The frame send writes: {id, method, params} and sessionId when one is given.
OutFrame(i, m, s) == [id |-> i, method |-> m, sessionId |-> s]
NoOut == OutFrame(0, "", "")

\* What `last` records: the operation, the send call it concerns (0 for none),
\* the inbound frame it handled, the method and the handler (for send: the
\* outcome of the write) it was given, and the frame it handed to the socket.
Op(name, n, f, m, h, o) ==
    [op |-> name, call |-> n, frame |-> f, method |-> m, arg |-> h, out |-> o]
NoOp(name) == Op(name, 0, NoFrame, "", "", NoOut)

\* An evaluate / evaluateInFrame call: the await it is suspended at ("world",
\* "eval") or "idle" / "done", its arguments, the send call it awaits, the
\* commands it has sent, and what its promise settled with.
EvalState(pc, fn, s, fr, e, n, sent, out) ==
    [pc |-> pc, fn |-> fn, sessionId |-> s, frameId |-> fr, expression |-> e,
     call |-> n, sent |-> sent, outcome |-> out]

\* No evaluate call has been made.
NoEval == EvalState("idle", "", "", "", "", 0, << >>, Pending)

\* ------------------------------------------------------------ constructor
\* new CDP(ws) on a socket that has opened.
InitClient ==
    /\ ws = "open"
    /\ id = 0
    /\ callbacks = << >>
    /\ timers = {}
    /\ calls = << >>
    /\ promise = << >>
    /\ settles = << >>
    /\ eventHandlers = [m \in {} |-> << >>]
    /\ delivered = << >>
    /\ escaped = FALSE
    /\ hung = FALSE
    /\ last = NoOp("new")
    /\ ev = NoEval

\* ------------------------------------------------------------ helpers
Range(seq) == { seq[i] : i \in DOMAIN seq }

\* Map.prototype.set / Map.prototype.delete on a map kept as a function.
MapSet(map, k, v) == [x \in (DOMAIN map) \cup {k} |-> IF x = k THEN v ELSE map[x]]
MapDelete(map, k) == [x \in (DOMAIN map) \ {k} |-> map[x]]

\* Set.prototype.add / Set.prototype.delete on a set kept in insertion order.
SetAdd(seq, h) == IF h \in Range(seq) THEN seq ELSE Append(seq, h)
SetDelete(seq, h) == SelectSeq(seq, LAMBDA x : x # h)

\* ------------------------------------------------------------ send
\* ++this.id
NextIdStale(cur) == cur
NextId(cur) == cur + 1

\* What this.ws.send does with the frame: an open socket takes it; a socket
\* that is closing or closed discards it silently or raises, by transport.
WriteOutcomes == IF ws = "open" THEN {"ok"} ELSE {"discard", "throw"}

send(method, sessionId, write) ==
    /\ Len(calls) < MaxCalls
    /\ write \in WriteOutcomes
    /\ LET n == Len(calls) + 1
           msgId == NextId(id)
       IN /\ id' = msgId
          /\ calls' = Append(calls, [msgId |-> msgId, method |-> method])
          /\ timers' = timers \cup {n}
          /\ callbacks' = MapSet(callbacks, msgId, n)
          \* an exception inside the executor rejects the promise
          /\ promise' = Append(promise, IF write = "throw" THEN Rejected(WriteError)
                                                           ELSE Pending)
          /\ settles' = Append(settles, IF write = "throw" THEN 1 ELSE 0)
          /\ last' = Op("send", n, NoFrame, method, write,
                      IF write = "ok" THEN OutFrame(msgId, method, sessionId) ELSE NoOut)
    /\ delivered' = << >>
    /\ escaped' = FALSE
    /\ UNCHANGED hung
    /\ UNCHANGED <<ws, eventHandlers>>
    /\ UNCHANGED cvars

\* this.callbacks.delete(msgId) in the setTimeout callback of send call n.
TimeoutKeepsEntry(n) == callbacks
TimeoutDelete(n) == MapDelete(callbacks, calls[n].msgId)

\* The setTimeout callback of send call n.
onTimeoutIdle(n) ==
    /\ n \in timers
    /\ UNCHANGED <<clientVars, cvars>>
onTimeout(n) ==
    /\ n \in timers
    /\ timers' = timers \ {n}
    /\ callbacks' = TimeoutDelete(n)
    /\ promise' = [promise EXCEPT ![n] = Settle(@, Rejected(TimeoutMessage(calls[n].method)))]
    /\ settles' = [settles EXCEPT ![n] = @ + 1]
    /\ last' = Op("timeout", n, NoFrame, "", "", NoOut)
    /\ delivered' = << >>
    /\ escaped' = FALSE
    /\ UNCHANGED hung
    /\ UNCHANGED <<ws, id, calls, eventHandlers>>
    /\ UNCHANGED cvars

\* ------------------------------------------------------------ event bus
\* The handler map after on(method, handler).
On(map, method, handler) ==
    MapSet(map, method,
           SetAdd(IF method \in DOMAIN map THEN map[method] ELSE << >>, handler))

on(method, handler) ==
    /\ eventHandlers' = On(eventHandlers, method, handler)
    /\ last' = Op("on", 0, NoFrame, method, handler, NoOut)
    /\ delivered' = << >>
    /\ escaped' = FALSE
    /\ UNCHANGED hung
    /\ UNCHANGED <<ws, id, callbacks, timers, calls, promise, settles>>
    /\ UNCHANGED <<cvars, ev>>

\* The handler map after off(method, handler).
OffDropsMethod(map, method, handler) ==
    IF method \notin DOMAIN map THEN map ELSE MapDelete(map, method)
OffKeepsEmpty(map, method, handler) ==
    IF method \notin DOMAIN map THEN map
    ELSE MapSet(map, method, SetDelete(map[method], handler))
Off(map, method, handler) ==
    IF method \notin DOMAIN map THEN map
    ELSE LET handlers == SetDelete(map[method], handler)
         IN IF Len(handlers) = 0 THEN MapDelete(map, method)
            ELSE MapSet(map, method, handlers)

\* off(method, handler), also the function on() returns.
off(method, handler) ==
    /\ eventHandlers' = Off(eventHandlers, method, handler)
    /\ last' = Op("off", 0, NoFrame, method, handler, NoOut)
    /\ delivered' = << >>
    /\ escaped' = FALSE
    /\ UNCHANGED hung
    /\ UNCHANGED <<ws, id, callbacks, timers, calls, promise, settles>>
    /\ UNCHANGED <<cvars, ev>>

Call(h, params, sessionId) == [handler |-> h, params |-> params, sessionId |-> sessionId]

\* What emit returns to the message listener: the handler calls it made, in
\* order, whether an exception left it, the handler map its handlers left
\* behind, and whether its loop was cut short as one that does not end.
Emitted(log, threw, map, cut) == [log |-> log, threw |-> threw, map |-> map, cut |-> cut]

\* The Set that `for (const handler of handlers)` walks: its entries in
\* insertion order, a deleted entry leaving an empty slot that the iterator
\* skips and an added one going to the end, where the iterator still reaches
\* it; `same` while it is the Set this.eventHandlers holds for the method
\* (off() drops an empty Set from the map, and on() then makes a new one).
EmptySlot == ""
Walk(slots, same, map, log) == [slots |-> slots, same |-> same, map |-> map, log |-> log]

\* this.off(method, h) called by a handler during the loop.
OffDuring(st, method, h) ==
    LET map == Off(st.map, method, h)
    IN Walk(IF st.same THEN [i \in DOMAIN st.slots |->
                               IF st.slots[i] = h THEN EmptySlot ELSE st.slots[i]]
            ELSE st.slots,
            st.same /\ method \in DOMAIN map, map, st.log)

\* this.on(method, h) called by a handler during the loop.
OnDuring(st, method, h) ==
    Walk(IF st.same THEN SetAdd(st.slots, h) ELSE st.slots,
         st.same, On(st.map, method, h), st.log)

\* handler(params, sessionId): the call is logged and the handler acts.
RunHandler(st, method, h, params, sessionId) ==
    LET called == [st EXCEPT !.log = Append(@, Call(h, params, sessionId))]
    IN IF Resubscribes(h) THEN OnDuring(OffDuring(called, method, h), method, h)
       ELSE IF Unsubscribes(h) # "" THEN OffDuring(called, method, Unsubscribes(h))
       ELSE called

\* The loop of emit from slot i on, with `fuel` handler calls left to follow.
\* The try/catch around the call keeps a raising handler from ending it.
RECURSIVE EmitFrom(_, _, _, _, _, _)
EmitFrom(st, i, method, params, sessionId, fuel) ==
    IF i > Len(st.slots) THEN Emitted(st.log, FALSE, st.map, FALSE)
    ELSE IF st.slots[i] = EmptySlot
         THEN EmitFrom(st, i + 1, method, params, sessionId, fuel)
         ELSE IF fuel = 0 THEN Emitted(st.log, FALSE, st.map, TRUE)
              ELSE EmitFrom(RunHandler(st, method, st.slots[i], params, sessionId),
                            i + 1, method, params, sessionId, fuel - 1)

RECURSIVE EmitFromNoCatch(_, _, _, _, _)
EmitFromNoCatch(handlers, i, params, sessionId, log) ==
    IF i > Len(handlers) THEN Emitted(log, FALSE, eventHandlers, FALSE)
    ELSE IF Throws(handlers[i])
         THEN Emitted(Append(log, Call(handlers[i], params, sessionId)), TRUE,
                      eventHandlers, FALSE)
         ELSE EmitFromNoCatch(handlers, i + 1, params, sessionId,
                              Append(log, Call(handlers[i], params, sessionId)))

EmitNoCatch(method, params, sessionId) ==
    IF method \notin DOMAIN eventHandlers
    THEN Emitted(<< >>, FALSE, eventHandlers, FALSE)
    ELSE EmitFromNoCatch(eventHandlers[method], 1, params, sessionId, << >>)

\* emit(method, params, sessionId)
emit(method, params, sessionId) ==
    IF method \notin DOMAIN eventHandlers \/ Len(eventHandlers[method]) = 0
    THEN Emitted(<< >>, FALSE, eventHandlers, FALSE)
    ELSE EmitFrom(Walk(eventHandlers[method], TRUE, eventHandlers, << >>),
                  1, method, params, sessionId, MaxVisits)

\* ------------------------------------------------------------ message listener
\* JSON.parse(toTextPayload(raw)) followed by the reads of msg.id and
\* msg.method: "throw" when the text is no JSON (SyntaxError) or is null
\* (TypeError on msg.id), else the branch the listener takes.
RouteNoHas(f) ==
    IF f.json \in {"invalid", "null"} THEN "throw"
    ELSE IF f.id # 0 THEN (IF f.id \in DOMAIN callbacks THEN "reply" ELSE "throw")
    ELSE IF f.method # "" THEN "event"
    ELSE "drop"
RouteMethodFirst(f) ==
    IF f.json \in {"invalid", "null"} THEN "throw"
    ELSE IF f.method # "" THEN "event"
    ELSE IF f.id # 0 /\ f.id \in DOMAIN callbacks THEN "reply"
    ELSE "drop"
Route(f) ==
    IF f.json \in {"invalid", "null"} THEN "throw"
    ELSE IF f.id # 0 /\ f.id \in DOMAIN callbacks THEN "reply"
    ELSE IF f.method # "" THEN "event"
    ELSE "drop"

\* this.callbacks.get(msg.id)
EntryOldest(msgId) ==
    callbacks[CHOOSE k \in DOMAIN callbacks : \A j \in DOMAIN callbacks : k <= j]
Entry(msgId) == callbacks[msgId]

\* reject(new Error(msg.error.message)) or resolve(msg.result)
ReplyAlwaysResolves(f) == Resolved(f.result)
ReplyOutcome(f) == IF f.error # "" THEN Rejected(f.error) ELSE Resolved(f.result)

\* msg.params || {} and msg.sessionId || null
ParamsOrEmpty(p) == IF p = "" THEN "{}" ELSE p
SessionOrNull(s) == IF s = "" THEN "null" ELSE s

\* clearTimeout(timeoutId) in the resolve / reject that send stored for call n.
ClearTimerNoop(n) == timers
ClearTimer(n) == timers \ {n}

onMessage(f) ==
    /\ ws \in {"open", "closing"}
    /\ LET route == Route(f) IN
       /\ IF route = "reply"
          THEN LET n == Entry(f.id) IN
               /\ callbacks' = MapDelete(callbacks, f.id)
               /\ timers' = ClearTimer(n)
               /\ promise' = [promise EXCEPT ![n] = Settle(@, ReplyOutcome(f))]
               /\ settles' = [settles EXCEPT ![n] = @ + 1]
               /\ last' = Op("message", n, f, "", "", NoOut)
          ELSE /\ UNCHANGED <<callbacks, timers, promise, settles>>
               /\ last' = Op("message", 0, f, "", "", NoOut)
       /\ LET out == IF route = "event"
                     THEN emit(f.method, ParamsOrEmpty(f.params), SessionOrNull(f.sessionId))
                     ELSE Emitted(<< >>, route = "throw", eventHandlers, FALSE)
          IN /\ delivered' = out.log
             /\ escaped' = out.threw
             /\ eventHandlers' = out.map
             /\ hung' = out.cut
    /\ UNCHANGED <<ws, id, calls>>
    /\ UNCHANGED cvars

\* ------------------------------------------------------------ lifecycle
\* close(): this.ws.close()
close ==
    /\ ws' = IF ws = "open" THEN "closing" ELSE ws
    /\ last' = NoOp("close")
    /\ delivered' = << >>
    /\ escaped' = FALSE
    /\ UNCHANGED hung
    /\ UNCHANGED <<id, callbacks, timers, calls, promise, settles, eventHandlers>>
    /\ UNCHANGED <<cvars, ev>>

\* The socket reaches CLOSED: the closing handshake ends, or the peer or the
\* network ends the connection.
socketClosed ==
    /\ ws \in {"open", "closing"}
    /\ ws' = "closed"
    /\ last' = NoOp("closed")
    /\ delivered' = << >>
    /\ escaped' = FALSE
    /\ UNCHANGED hung
    /\ UNCHANGED <<id, callbacks, timers, calls, promise, settles, eventHandlers>>
    /\ UNCHANGED <<cvars, ev>>

\* ------------------------------------------------------------ evaluate
\* The expression and frameId arguments.
Expressions == {"e1", "e2"}
FrameIds == {"f1", "f2"}

\* The result objects a reply to Runtime.evaluate carries, by name: a value,
\* no value, exceptionDetails with a text only, and exceptionDetails with a
\* text and an exception object that has a description.
EvalResults == {"value", "no-value", "text-only", "text-and-description"}

\* The result object of a reply to Page.createIsolatedWorld.
WorldResults == {"world-c1"}

\* The fields evaluate reads of a result object: result.value ("undefined"
\* when absent), whether exceptionDetails is there, its text and its
\* exception.description ("" when absent).
Body(v, d, t, desc) == [value |-> v, details |-> d, text |-> t, description |-> desc]
BodyOf(r) ==
    CASE r = "value" -> Body("42", FALSE, "", "")
      [] r = "text-only" ->
            Body("undefined", TRUE, "Uncaught ReferenceError: x is not defined", "")
      [] r = "text-and-description" ->
            Body("undefined", TRUE, "Uncaught",
                 "ReferenceError: x is not defined\n    at <anonymous>:1:1")
      [] OTHER -> Body("undefined", FALSE, "", "")

\* const { executionContextId } = <result of Page.createIsolatedWorld>
ContextId(r) == IF r = "world-c1" THEN "c1" ELSE "undefined"

\* The reply frames of the remote side to the commands of evaluate.
EvalFrames ==
    { Frame("object", k, "", "", r, "", "") :
         k \in 1..MaxCalls, r \in EvalResults \cup WorldResults } \cup
    { Frame("object", k, "", ErrorOf(k), "", "", "") : k \in 1..MaxCalls }

\* A command as evaluate hands it to send: the method, the expression,
\* contextId and frameId of its params ("" when not among them), the
\* sessionId, and the timeout ("given" or the "default" of send).
Sent(method, e, c, fr, s, t) ==
    [method |-> method, expression |-> e, contextId |-> c, frameId |-> fr,
     sessionId |-> s, timeout |-> t]

\* What evaluate makes of the settled promise of its Runtime.evaluate command.
EvaluateIgnoresDetails(p) ==
    IF p.state = "rejected" THEN p ELSE Resolved(BodyOf(p.value).value)
EvaluateOutcome(p) ==
    IF p.state = "rejected" THEN p
    ELSE LET b == BodyOf(p.value)
         IN IF b.details
            THEN Rejected(IF b.description # "" THEN b.description ELSE b.text)
            ELSE Resolved(b.value)

\* evaluate(sessionId, expression, timeout) up to its await.
evaluate(sessionId, expression) ==
    /\ ev.pc = "idle"
    /\ \E w \in WriteOutcomes : send("Runtime.evaluate", sessionId, w)
    /\ ev' = EvalState("eval", "evaluate", sessionId, "", expression, Len(calls) + 1,
                       << Sent("Runtime.evaluate", expression, "", "", sessionId, "given") >>,
                       Pending)

\* evaluateInFrame(sessionId, frameId, expression, timeout) up to its first await.
evaluateInFrame(sessionId, frameId, expression) ==
    /\ ev.pc = "idle"
    /\ \E w \in WriteOutcomes : send("Page.createIsolatedWorld", sessionId, w)
    /\ ev' = EvalState("world", "evaluateInFrame", sessionId, frameId, expression,
                       Len(calls) + 1,
                       << Sent("Page.createIsolatedWorld", "", "", frameId, sessionId, "default") >>,
                       Pending)

\* evaluateInFrame after Page.createIsolatedWorld settled: it rejects with the
\* error of that command, or sends Runtime.evaluate with the contextId.
worldResumeSendsAnyway ==
    /\ ev.pc = "world"
    /\ promise[ev.call].state # "pending"
    /\ \E w \in WriteOutcomes : send("Runtime.evaluate", ev.sessionId, w)
    /\ ev' = [ev EXCEPT !.pc = "eval",
                        !.call = Len(calls) + 1,
                        !.sent = Append(@, Sent("Runtime.evaluate", ev.expression,
                                                ContextId(promise[ev.call].value),
                                                "", ev.sessionId, "given"))]
worldResume ==
    /\ ev.pc = "world"
    /\ promise[ev.call].state # "pending"
    /\ IF promise[ev.call].state = "rejected"
       THEN /\ ev' = [ev EXCEPT !.pc = "done", !.outcome = promise[ev.call]]
            /\ UNCHANGED <<clientVars, cvars>>
       ELSE /\ \E w \in WriteOutcomes : send("Runtime.evaluate", ev.sessionId, w)
            /\ ev' = [ev EXCEPT !.pc = "eval",
                                !.call = Len(calls) + 1,
                                !.sent = Append(@, Sent("Runtime.evaluate", ev.expression,
                                                        ContextId(promise[ev.call].value),
                                                        "", ev.sessionId, "given"))]

\* evaluate / evaluateInFrame after Runtime.evaluate settled.
evalResume ==
    /\ ev.pc = "eval"
    /\ promise[ev.call].state # "pending"
    /\ ev' = [ev EXCEPT !.pc = "done", !.outcome = EvaluateOutcome(promise[ev.call])]
    /\ UNCHANGED <<clientVars, cvars>>

\* ------------------------------------------------------------ connect: text
\* A text is a sequence of parts; a part is plain (key "") or a key such as
\* "token=" followed by a value, the shape redactSecrets looks for.
Part(k, v) == [key |-> k, value |-> v]
Text(s) == << Part("", s) >>
NoQuery == Part("", "")
Token == Part("token=", "s3cret")

\* A credential under a parameter name other providers use.
ApiKey == Part("apiKey=", "s3cret")

\* The value of the credentials above.
CredentialValue == "s3cret"

\* The text a part stands for.
PartText(p) == p.key \o p.value

\* redactSecrets(text): the value after token=, access_token=, access-token=
\* (any prefix: the first pattern matches inside a longer key) or after
\* authorization: becomes ***.
RedactedKeys == {"token=", "access_token=", "access-token=", "authorization:"}
redactSecrets(text) ==
    [i \in DOMAIN text |->
        IF text[i].key \in RedactedKeys /\ text[i].value # ""
        THEN Part(text[i].key, IF text[i].key = "authorization:" THEN " ***" ELSE "***")
        ELSE text[i]]

\* ------------------------------------------------------------ connect: URLs
\* An endpoint text by its parts: the scheme, whether "//" follows the colon,
\* whether `new URL` accepts the text, and the hostname, path and query.
Endpoint(s, sl, v, h, p, q) ==
    [scheme |-> s, slashes |-> sl, valid |-> v, host |-> h, path |-> p, query |-> q]
Url(s, h, p, q) == Endpoint(s, TRUE, TRUE, h, p, q)
NoUrl == Endpoint("", FALSE, FALSE, "", "", NoQuery)

\* The values of LIGHTPANDA_CDP_URL / CDP_WS_URL considered: the four
\* supported prefixes, another scheme with and without a hostname, a text
\* without scheme, and ws:// and wss:// texts that `new URL` rejects.
Endpoints ==
    { Url("ws", "cloud", "/ws", Token),
      Url("wss", "cloud", "", NoQuery),
      Url("http", "cloud", "", NoQuery),
      Url("https", "cloud", "/json/version", Token),
      Url("ftp", "host", "/path", NoQuery),
      Endpoint("mailto", FALSE, TRUE, "", "user", NoQuery),
      Endpoint("", FALSE, FALSE, "", "cloud.example/ws", NoQuery),
      Endpoint("ws", TRUE, FALSE, "cloud:port", "/ws", Token),
      Endpoint("wss", TRUE, FALSE, "cloud:port", "", ApiKey) }

\* The text of an endpoint up to its query, and as a whole.
UrlStem(u) ==
    (IF u.scheme = "" THEN "" ELSE u.scheme \o (IF u.slashes THEN "://" ELSE ":"))
    \o u.host \o u.path
UrlParts(u) ==
    Text(UrlStem(u)) \o (IF u.query = NoQuery THEN << >> ELSE Text("?") \o << u.query >>)
UrlText(u) ==
    UrlStem(u) \o (IF u.query = NoQuery THEN "" ELSE "?" \o PartText(u.query))

\* parsed?.hostname: the hostname of a text `new URL` accepts.
Hostname(u) == IF u.valid THEN u.host ELSE ""

\* URL.pathname: the special schemes have "/" for an empty path.
Pathname(u) ==
    IF u.path = "" /\ u.scheme \in {"ws", "wss", "http", "https", "ftp"} THEN "/" ELSE u.path

\* envWsUrl.startsWith(scheme + "://")
StartsWith(u, scheme) == u.scheme = scheme /\ u.slashes

\* describeWsEndpoint(raw)
describeWsEndpoint(u) ==
    IF ~u.valid THEN "(invalid url)"
    ELSE u.scheme \o ":" \o "//" \o u.host \o Pathname(u)

\* guessWsFromHttp(httpUrl)
guessWsFromHttp(u) ==
    Url(IF u.scheme = "https" THEN "wss" ELSE "ws", u.host,
        IF Pathname(u) \in {"", "/"} THEN "/ws" ELSE Pathname(u), u.query)

\* joinUrl(base, "/json/version")
joinUrl(u) ==
    Url(u.scheme, u.host,
        (IF Pathname(u) = "/" THEN "" ELSE Pathname(u)) \o "/json/version", u.query)

\* The webSocketDebuggerUrl of the discovery document, when it has one.
DiscoveredUrl == Url("ws", "cloud", "/devtools/abc", NoQuery)

\* "http://localhost:9222/json/version"
LocalVersionUrl == Url("http", "localhost:9222", "/json/version", NoQuery)

\* The argument of connectWebSocket(undefined).
UndefinedUrl == Endpoint("", FALSE, FALSE, "", "undefined", NoQuery)

\* ------------------------------------------------------------ connect: messages
InvalidEndpointMessage ==
    Text("Invalid LIGHTPANDA_CDP_URL/CDP_WS_URL (must start with ws://, wss://, http://, or https://).")

DnsMessage(hostname) == Text("DNS lookup failed for host '" \o hostname \o "' (ENOTFOUND).")

NoWebSocketMessage ==
    Text("WebSocket is not available in this Node.js runtime. Use Node >= 20 (recommended) or install the 'ws' package.")

LocalTimeoutMessage ==
    Text("Connection timeout - set LIGHTPANDA_CDP_URL (recommended) or run Chrome with --remote-debugging-port=9222.")

NoDebuggerUrlMessage == Text("Could not resolve webSocketDebuggerUrl from HTTP endpoint.")

\* The SyntaxError of a socket constructor given a text that is no URL: the
\* runtime's WebSocket does not quote the text, the ws package does.
InvalidUrlMessage(impl, u) ==
    IF impl = "native" THEN Text("TypeError: Invalid URL")
    ELSE Text("Invalid URL: ") \o UrlParts(u)

\* How a fetch of a JSON document can end: a document with the field, one
\* without it, a non-2xx status, a network failure, a body that is no JSON,
\* or the abort of the timer.
FetchOutcomes == {"url", "nofield", "status", "network", "badjson", "abort"}

\* The message of the error fetchJsonWithTimeout raises.
FetchMessage(o) ==
    CASE o = "status" -> Text("HTTP 404")
      [] o = "network" -> Text("fetch failed")
      [] o = "badjson" -> Text("Unexpected token < in JSON at position 0")
      [] o = "abort" -> Text("This operation was aborted")
      [] OTHER -> << >>

\* The error connect raises on the configured-endpoint path.
FailedToConnect(u, message) ==
    Text("Failed to connect to CDP websocket at " \o describeWsEndpoint(u)
         \o ". Verify LIGHTPANDA_CDP_URL and your network access.")
    \o (IF redactSecrets(message) = << >> THEN << >>
        ELSE Text(" ") \o redactSecrets(message))

\* ------------------------------------------------------------ connect: steps
NetOp(kind, target) == [kind |-> kind, target |-> target]

\* An answer of the outside world: the await it ended (the resolver, a fetch,
\* the socket of a connectWebSocket stage) and how ("timeout" is the connect
\* timer, "abort" the timer of a fetch).
Heard(from, what) == [from |-> from, what |-> what]
Socket(url, state) == [url |-> url, state |-> state]
NoResult == [status |-> "pending", url |-> "", message |-> << >>]
Client(url) == [status |-> "client", url |-> url, message |-> << >>]
Failure(message) == [status |-> "error", url |-> "", message |-> message]

\* connect rejects: wrapped by the catch of the configured-endpoint path,
\* raised as it is on the local path.
Reject(message, socks) ==
    /\ cpc' = "failed"
    /\ cresult' = Failure(IF endpoint = NoUrl THEN message
                          ELSE FailedToConnect(endpoint, message))
    /\ sockets' = socks
    /\ netOps' = netOps

\* A connectWebSocket at `stage` failed with `message`: the failure of the
\* scheme-substituted attempt is swallowed and discovery starts.
WsFailed(stage, message, socks) ==
    IF stage = "ws_guess"
    THEN /\ cpc' = "fetch1"
         /\ netOps' = Append(netOps, NetOp("fetch", UrlText(endpoint)))
         /\ sockets' = socks
         /\ cresult' = cresult
    ELSE Reject(message, socks)

\* connectWebSocket(wsUrl, timeout) up to its await: without a WebSocket
\* implementation, or when the constructor rejects the text, it fails at once.
BeginWs(u, stage) ==
    IF wsImpl = "none" THEN WsFailed(stage, NoWebSocketMessage, sockets)
    ELSE IF u.valid
    THEN /\ cpc' = stage
         /\ netOps' = Append(netOps, NetOp("ws", UrlText(u)))
         /\ sockets' = Append(sockets, Socket(UrlText(u), "connecting"))
         /\ cresult' = cresult
    ELSE WsFailed(stage, InvalidUrlMessage(wsImpl, u), sockets)

\* connect after the hostname check: the branch on the endpoint's prefix.
DispatchDiscoveryFirst(u) ==
    IF StartsWith(u, "ws") \/ StartsWith(u, "wss") THEN BeginWs(u, "ws_direct")
    ELSE IF StartsWith(u, "http") \/ StartsWith(u, "https")
         THEN /\ cpc' = "fetch1"
              /\ netOps' = Append(netOps, NetOp("fetch", UrlText(u)))
              /\ UNCHANGED <<sockets, cresult>>
         ELSE Reject(InvalidEndpointMessage, sockets)
Dispatch(u) ==
    IF StartsWith(u, "ws") \/ StartsWith(u, "wss") THEN BeginWs(u, "ws_direct")
    ELSE IF StartsWith(u, "http") \/ StartsWith(u, "https")
         THEN BeginWs(guessWsFromHttp(u), "ws_guess")
         ELSE Reject(InvalidEndpointMessage, sockets)

\* connect(timeout) up to its first await.
connectStart ==
    /\ cpc = "start"
    /\ IF endpoint = NoUrl
       THEN /\ cpc' = "local_fetch"
            /\ netOps' = Append(netOps, NetOp("fetch", UrlText(LocalVersionUrl)))
            /\ UNCHANGED <<sockets, cresult>>
       ELSE IF Hostname(endpoint) # ""
            THEN /\ cpc' = "dns"
                 /\ netOps' = Append(netOps, NetOp("dns", Hostname(endpoint)))
                 /\ UNCHANGED <<sockets, cresult>>
            ELSE Dispatch(endpoint)
    /\ UNCHANGED <<endpoint, wsImpl, heard>>
    /\ UNCHANGED <<clientVars, ev>>

\* dns.lookup settles: assertDnsResolves raises for ENOTFOUND only.
DnsOutcomes == {"ok", "ENOTFOUND", "EAI_AGAIN"}

dnsAnswer(o) ==
    /\ cpc = "dns"
    /\ IF o = "ENOTFOUND" THEN Reject(DnsMessage(Hostname(endpoint)), sockets)
       ELSE Dispatch(endpoint)
    /\ heard' = Append(heard, Heard("dns", o))
    /\ UNCHANGED <<endpoint, wsImpl>>
    /\ UNCHANGED <<clientVars, ev>>

WsStages == {"ws_direct", "ws_guess", "ws_resolved", "local_ws"}

SetLast(socks, state) == [socks EXCEPT ![Len(socks)].state = state]

\* The socket's open event: clearTimeout, resolve(new CDP(ws)).
wsOpen ==
    /\ cpc \in WsStages
    /\ cpc' = "connected"
    /\ sockets' = SetLast(sockets, "open")
    /\ cresult' = Client(sockets[Len(sockets)].url)
    /\ heard' = Append(heard, Heard(cpc, "open"))
    /\ UNCHANGED <<endpoint, wsImpl, netOps>>
    /\ UNCHANGED <<clientVars, ev>>

\* The socket's error event: clearTimeout, reject.
wsError ==
    /\ cpc \in WsStages
    /\ WsFailed(cpc, Text("WebSocket error"), SetLast(sockets, "error"))
    /\ heard' = Append(heard, Heard(cpc, "error"))
    /\ UNCHANGED <<endpoint, wsImpl>>
    /\ UNCHANGED <<clientVars, ev>>

\* The connect timer: ws.close(), reject.
wsTimeout ==
    /\ cpc \in WsStages
    /\ WsFailed(cpc, Text("WebSocket connect timeout"), SetLast(sockets, "closed"))
    /\ heard' = Append(heard, Heard(cpc, "timeout"))
    /\ UNCHANGED <<endpoint, wsImpl>>
    /\ UNCHANGED <<clientVars, ev>>

\* resolveWsFromHttp: the fetch of the URL as given settles.
fetchFirstReusesGuess(o) ==
    /\ cpc = "fetch1"
    /\ IF o = "url" THEN BeginWs(guessWsFromHttp(endpoint), "ws_resolved")
       ELSE /\ cpc' = "fetch2"
            /\ netOps' = Append(netOps, NetOp("fetch", UrlText(joinUrl(endpoint))))
            /\ UNCHANGED <<sockets, cresult>>
    /\ heard' = Append(heard, Heard("fetch1", o))
    /\ UNCHANGED <<endpoint, wsImpl>>
    /\ UNCHANGED <<clientVars, ev>>
fetchFirst(o) ==
    /\ cpc = "fetch1"
    /\ IF o = "url" THEN BeginWs(DiscoveredUrl, "ws_resolved")
       ELSE /\ cpc' = "fetch2"
            /\ netOps' = Append(netOps, NetOp("fetch", UrlText(joinUrl(endpoint))))
            /\ UNCHANGED <<sockets, cresult>>
    /\ heard' = Append(heard, Heard("fetch1", o))
    /\ UNCHANGED <<endpoint, wsImpl>>
    /\ UNCHANGED <<clientVars, ev>>

\* resolveWsFromHttp: the fetch of <url>/json/version settles.
fetchSecond(o) ==
    /\ cpc = "fetch2"
    /\ IF o = "url" THEN BeginWs(DiscoveredUrl, "ws_resolved")
       ELSE IF o = "nofield" THEN Reject(NoDebuggerUrlMessage, sockets)
       ELSE Reject(FetchMessage(o), sockets)
    /\ heard' = Append(heard, Heard("fetch2", o))
    /\ UNCHANGED <<endpoint, wsImpl>>
    /\ UNCHANGED <<clientVars, ev>>

\* The local fallback: the fetch of localhost:9222/json/version settles. The
\* status is not looked at; a document without the field makes
\* connectWebSocket(undefined), whose socket constructor raises.
localFetch(o) ==
    /\ cpc = "local_fetch"
    /\ o # "status"
    /\ IF o = "url" THEN BeginWs(DiscoveredUrl, "local_ws")
       ELSE IF o = "abort" THEN Reject(LocalTimeoutMessage, sockets)
       ELSE IF o = "nofield" THEN BeginWs(UndefinedUrl, "local_ws")
       ELSE Reject(FetchMessage(o), sockets)
    /\ heard' = Append(heard, Heard("local_fetch", o))
    /\ UNCHANGED <<endpoint, wsImpl>>
    /\ UNCHANGED <<clientVars, ev>>

\* ------------------------------------------------------------ specification
\* The client as connect hands it over: a direct connect to a ws:// endpoint
\* has succeeded.
ConnectedDirect ==
    /\ endpoint = Url("ws", "cloud", "/ws", Token)
    /\ wsImpl = "native"
    /\ cpc = "connected"
    /\ netOps = << NetOp("dns", "cloud"), NetOp("ws", UrlText(endpoint)) >>
    /\ sockets = << Socket(UrlText(endpoint), "open") >>
    /\ cresult = Client(UrlText(endpoint))
    /\ heard = << Heard("dns", "ok"), Heard("ws_direct", "open") >>

Init == InitClient /\ ConnectedDirect

\* The request/response side in full, with one handler to register: every
\* interleaving of sends, timers, frames, close and the socket closing.
Next ==
    \/ /\ \E m \in Methods, s \in SessionIds, w \in {"ok", "discard", "throw"} : send(m, s, w)
       /\ UNCHANGED ev
    \/ /\ \E n \in CallIds : onTimeout(n)
       /\ UNCHANGED ev
    \/ /\ \E f \in Frames : onMessage(f)
       /\ UNCHANGED ev
    \/ \E m \in {"m1"}, h \in {"h1"} : on(m, h)
    \/ \E m \in {"m1"}, h \in {"h1"} : off(m, h)
    \/ close
    \/ socketClosed

Spec == Init /\ [][Next]_vars

\* The event side in full: every handler and method to register and remove,
\* beside the same sends, timers, frames and closing.
NextBus ==
    \/ /\ Len(calls) < MaxBusCalls
       /\ \E m \in Methods, s \in SessionIds, w \in {"ok", "discard", "throw"} : send(m, s, w)
       /\ UNCHANGED ev
    \/ /\ \E n \in CallIds : onTimeout(n)
       /\ UNCHANGED ev
    \/ /\ \E f \in Frames : onMessage(f)
       /\ UNCHANGED ev
    \/ \E m \in Methods, h \in Handlers : on(m, h)
    \/ \E m \in Methods, h \in Handlers : off(m, h)
    \/ close
    \/ socketClosed

SpecBus == Init /\ [][NextBus]_vars

\* Events for one method whose handlers may change its subscriptions while
\* emit runs. Once the message callback does not return, nothing else runs.
NextReentrant ==
    \/ /\ ~hung
       /\ \E h \in Handlers \cup ReentrantHandlers : on("m1", h)
    \/ /\ ~hung
       /\ \E h \in Handlers \cup ReentrantHandlers : off("m1", h)
    \/ /\ ~hung
       /\ \E f \in EventFrames : onMessage(f)
       /\ UNCHANGED ev

SpecReentrant == Init /\ [][NextReentrant]_vars

\* One evaluate or evaluateInFrame call, with the replies and timers of the
\* commands it sends, on a socket that may be closed meanwhile.
NextEval ==
    \/ \E s \in SessionIds, e \in Expressions : evaluate(s, e)
    \/ \E s \in SessionIds, fr \in FrameIds, e \in Expressions : evaluateInFrame(s, fr, e)
    \/ /\ \E f \in EvalFrames : onMessage(f)
       /\ UNCHANGED ev
    \/ /\ \E n \in CallIds : onTimeout(n)
       /\ UNCHANGED ev
    \/ worldResume
    \/ evalResume
    \/ close
    \/ socketClosed

SpecEval == Init /\ [][NextEval]_vars

\* The timer of send call n fires.
TimerFires(n) == onTimeout(n) /\ UNCHANGED ev

\* Sends, their timers, reply frames for any id, close and the socket
\* closing, where an armed timer eventually fires: the runtime runs a due
\* timer callback once the running callback has returned. Nothing is assumed
\* of the remote side.
NextLive ==
    \/ /\ \E w \in {"ok", "discard", "throw"} : send("m1", "", w)
       /\ UNCHANGED ev
    \/ \E n \in CallIds : TimerFires(n)
    \/ /\ \E f \in ReplyFrames : onMessage(f)
       /\ UNCHANGED ev
    \/ close
    \/ socketClosed

SpecLive == Init /\ [][NextLive]_vars /\ \A n \in CallIds : WF_vars(TimerFires(n))

\* connect(timeout) from its call on, for every endpoint and runtime.
InitConnect ==
    /\ InitClient
    /\ endpoint \in Endpoints \cup {NoUrl}
    /\ wsImpl \in {"native", "package", "none"}
    /\ cpc = "start"
    /\ netOps = << >>
    /\ sockets = << >>
    /\ cresult = NoResult
    /\ heard = << >>

NextConnect ==
    \/ connectStart
    \/ \E o \in DnsOutcomes : dnsAnswer(o)
    \/ wsOpen
    \/ wsError
    \/ wsTimeout
    \/ \E o \in FetchOutcomes : fetchFirst(o)
    \/ \E o \in FetchOutcomes : fetchSecond(o)
    \/ \E o \in FetchOutcomes : localFetch(o)

SpecConnect == InitConnect /\ [][NextConnect]_vars

\* ------------------------------------------------------------ properties
\* The handlers registered for a method in a handler map.
Registered(map, m) == IF m \in DOMAIN map THEN Range(map[m]) ELSE {}

\* How often handler h was called in a list of handler calls.
Count(log, h) == Cardinality({ i \in DOMAIN log : log[i].handler = h })

\* The error the specification asks close() to reject pending calls with.
ConnectionClosed == "connection closed"

\* The last step handled frame f as an event (it carries a method and its id
\* matched no pending entry).
WasEvent(op) ==
    /\ op.op = "message"
    /\ op.frame.json \in {"object"}
    /\ op.frame.method # ""
    /\ op.call = 0

\* C1: a close() step rejects every send call that is pending at that moment
\* with the connection-closed error, so none stays pending and none is left
\* to end with its own timeout error.
C1_CloseRejectsPending ==
    [][ last'.op = "close" =>
          \A n \in DOMAIN promise :
             promise[n].state = "pending" => promise'[n] = Rejected(ConnectionClosed) ]_vars

\* C2: when the timer of a send call fires while the call is unsettled, the
\* call is rejected with `CDP timeout: <its method>`; in that same step its
\* entry leaves the pending map and its timer is gone; and a frame carrying
\* that id which arrives later changes no pending entry, timer, promise or
\* counter (and, being a reply without method, calls no handler).
C2_TimeoutThenLateReplyIgnored ==
    [][ /\ \A n \in DOMAIN calls :
              (last'.op = "timeout" /\ last'.call = n) =>
                 /\ promise[n].state = "pending" =>
                       promise'[n] = Rejected("CDP timeout: " \o calls[n].method)
                 /\ calls[n].msgId \notin DOMAIN callbacks'
                 /\ n \notin timers'
                 /\ \A k \in DOMAIN callbacks :
                       k # calls[n].msgId => k \in DOMAIN callbacks' /\ callbacks'[k] = callbacks[k]
        /\ \A n \in DOMAIN calls :
              ( /\ last'.op = "message"
                /\ last'.frame.id = calls[n].msgId
                /\ promise[n] = Rejected("CDP timeout: " \o calls[n].method) ) =>
                 /\ UNCHANGED <<callbacks, timers, promise, settles, id>>
                 /\ last'.frame.method = "" => (delivered' = << >> /\ ~escaped') ]_vars

\* C2 witness: a reply frame has just arrived for a call that had timed out.
C2_Witness ==
    /\ last.op = "message"
    /\ last.frame.method = ""
    /\ \E n \in DOMAIN calls :
          /\ last.frame.id = calls[n].msgId
          /\ promise[n] = Rejected("CDP timeout: " \o calls[n].method)
          /\ settles[n] = 1

\* C3: a reply frame (an object with an id and no method) whose id matches no
\* pending entry leaves the pending map, the timers, the id counter, the
\* promises and the handler map as they were, calls no handler, and lets no
\* error out of the message callback; the socket keeps delivering frames.
C3_UnmatchedReplyDropped ==
    [][ ( /\ last'.op = "message"
          /\ last'.frame.json = "object"
          /\ last'.frame.id # 0
          /\ last'.frame.method = ""
          /\ last'.frame.id \notin DOMAIN callbacks ) =>
            /\ UNCHANGED <<callbacks, timers, id, promise, settles, eventHandlers, ws>>
            /\ delivered' = << >>
            /\ ~escaped' ]_vars

\* C3 witness: an unmatched reply was handled while another call was pending
\* and a handler was registered.
C3_Witness ==
    /\ last.op = "message"
    /\ last.frame.json = "object"
    /\ last.frame.id # 0
    /\ last.frame.method = ""
    /\ last.call = 0
    /\ DOMAIN callbacks # {}
    /\ DOMAIN eventHandlers # {}

\* C4: whatever the order of arrival, a step settles a call, disarms its timer
\* or removes its entry only if it is the frame carrying that call's id (and
\* then the call gets that frame's error or result) or that call's own timer
\* (and then it gets its own timeout error).
C4_IndependentSettlement ==
    [][ \A n \in DOMAIN calls :
          ( \/ promise'[n] # promise[n]
            \/ settles'[n] # settles[n]
            \/ (n \in timers /\ n \notin timers')
            \/ (calls[n].msgId \in DOMAIN callbacks /\ calls[n].msgId \notin DOMAIN callbacks') )
          => \/ /\ last'.op = "message"
                /\ last'.frame.id = calls[n].msgId
                /\ promise[n].state = "pending" =>
                      promise'[n] = IF last'.frame.error # ""
                                    THEN Rejected(last'.frame.error)
                                    ELSE Resolved(last'.frame.result)
             \/ /\ last'.op = "timeout"
                /\ last'.call = n
                /\ promise[n].state = "pending" =>
                      promise'[n] = Rejected("CDP timeout: " \o calls[n].method) ]_vars

\* C4 witness: two calls were outstanding and the reply of the second arrived
\* first; the first is still pending with its timer armed.
C4_Witness ==
    /\ Len(calls) >= 2
    /\ promise[2] = Resolved(ResultOf(calls[2].msgId))
    /\ promise[1].state = "pending"
    /\ 1 \in timers
    /\ calls[1].msgId \in DOMAIN callbacks

\* C5: the identifiers allocated are above zero and strictly increasing (so
\* none is allocated twice), every pending identifier is at most the counter,
\* each pending entry belongs to the call that was given that identifier, and
\* every unsettled call has its own entry.
C5_IdentifiersFresh ==
    /\ \A n \in DOMAIN calls : calls[n].msgId > 0 /\ calls[n].msgId <= id
    /\ \A n, k \in DOMAIN calls : n < k => calls[n].msgId < calls[k].msgId
    /\ \A k \in DOMAIN callbacks : k <= id /\ calls[callbacks[k]].msgId = k
    /\ \A n \in DOMAIN calls :
          promise[n].state = "pending" =>
             calls[n].msgId \in DOMAIN callbacks /\ callbacks[calls[n].msgId] = n

\* C5 witness: after two sends and the settlement of the first, the second
\* is pending under the second identifier.
C5_Witness ==
    /\ Len(calls) >= 2
    /\ id >= 2
    /\ promise[1].state # "pending"
    /\ promise[2].state = "pending"
    /\ DOMAIN callbacks = {calls[2].msgId}

\* C6: a frame whose id matches a pending entry rejects that call with the
\* frame's error message when the frame carries an error, resolves it with
\* the frame's result otherwise, and removes the entry either way.
C6_ReplySettlesByErrorField ==
    [][ ( /\ last'.op = "message"
          /\ last'.frame.json = "object"
          /\ last'.frame.id # 0
          /\ last'.frame.id \in DOMAIN callbacks ) =>
            LET f == last'.frame
                n == callbacks[f.id]
            IN /\ promise[n].state = "pending" =>
                     promise'[n] = IF f.error # "" THEN Rejected(f.error)
                                                   ELSE Resolved(f.result)
               /\ f.id \notin DOMAIN callbacks' ]_vars

\* C6 witness: an error reply has just rejected its call with its message.
C6_Witness ==
    /\ last.op = "message"
    /\ last.frame.error # ""
    /\ last.call # 0
    /\ promise[last.call] = Rejected(last.frame.error)
    /\ last.frame.id \notin DOMAIN callbacks

\* C7: an event frame calls every handler registered for its method exactly
\* once and no other handler; on() adds exactly the given handler to the
\* given method and off() (the unsubscribe function) removes exactly it, so
\* after off() the next event calls the remaining handler once and the
\* removed one not at all.
C7_EachHandlerOnce ==
    [][ /\ WasEvent(last') =>
              \A h \in Handlers :
                 Count(delivered', h) =
                    IF h \in Registered(eventHandlers, last'.frame.method) THEN 1 ELSE 0
        /\ last'.op = "on" =>
              \A m \in Methods :
                 Registered(eventHandlers', m) =
                    Registered(eventHandlers, m) \cup
                       (IF m = last'.method THEN {last'.arg} ELSE {})
        /\ last'.op = "off" =>
              \A m \in Methods :
                 Registered(eventHandlers', m) =
                    Registered(eventHandlers, m) \
                       (IF m = last'.method THEN {last'.arg} ELSE {}) ]_vars

\* C7 witness: one event has just been delivered to two distinct handlers of
\* its method.
C7_Witness ==
    /\ WasEvent(last)
    /\ Len(delivered) = 2
    /\ delivered[1].handler # delivered[2].handler
    /\ Registered(eventHandlers, last.frame.method) =
          {delivered[1].handler, delivered[2].handler}

\* C8: when a handler registered for an event's method raises, every handler
\* registered for that method is still called once for that event, nothing
\* is raised out of the message callback, and the pending map, timers,
\* promises, handler map and socket are as before, so the next frame is
\* handled as any other.
C8_HandlerErrorContained ==
    [][ ( /\ WasEvent(last')
          /\ \E h \in Registered(eventHandlers, last'.frame.method) : Throws(h) ) =>
            /\ \A h \in Registered(eventHandlers, last'.frame.method) :
                  Count(delivered', h) = 1
            /\ ~escaped'
            /\ UNCHANGED <<callbacks, timers, promise, settles, eventHandlers, ws, id>> ]_vars

\* C8 witness: the first handler called for an event raised, a second one was
\* called after it, and a call is pending.
C8_Witness ==
    /\ WasEvent(last)
    /\ Len(delivered) = 2
    /\ Throws(delivered[1].handler)
    /\ ~Throws(delivered[2].handler)
    /\ ~escaped
    /\ DOMAIN callbacks # {}

\* C9: an inbound frame that is no JSON text, or whose JSON is not an object,
\* lets no error out of the message callback.
C9_MalformedContained ==
    (last.op = "message" /\ last.frame.json \in {"invalid", "null", "scalar"}) => ~escaped

\* C10: when the endpoint begins with none of ws://, wss://, http://, https://,
\* connect fails with the configuration error and has started no network
\* operation (DNS lookup, WebSocket open, HTTP fetch) by then.
C10_BadSchemeFailsBeforeNetwork ==
    ( /\ cpc = "failed"
      /\ endpoint # NoUrl
      /\ \A scheme \in {"ws", "wss", "http", "https"} : ~StartsWith(endpoint, scheme) ) =>
        /\ cresult = Failure(FailedToConnect(endpoint, InvalidEndpointMessage))
        /\ netOps = << >>

\* The endpoint is one connect resolves through HTTP.
IsHttp(u) == StartsWith(u, "http") \/ StartsWith(u, "https")

\* C11 as stated: with an http:// or https:// endpoint, a successful connect
\* returns a client on the webSocketDebuggerUrl of the discovery document,
\* whatever the other attempts did.
C11_AlwaysDiscoveredUrl ==
    (cpc = "connected" /\ IsHttp(endpoint)) => cresult = Client(UrlText(DiscoveredUrl))

\* C11: with an http:// or https:// endpoint, the first socket is created for
\* the scheme-substituted URL; if it opens, connect returns a client on it and
\* no discovery document is fetched; if it fails, a successful connect returns
\* a client on the webSocketDebuggerUrl of a discovery document that was
\* fetched, and that socket is the only one that opened.
C11_GuessElseDiscoveredUrl ==
    (cpc = "connected" /\ IsHttp(endpoint)) =>
        LET guess == UrlText(guessWsFromHttp(endpoint)) IN
        /\ sockets[1].url = guess
        /\ IF sockets[1].state = "open"
           THEN /\ Len(sockets) = 1
                /\ cresult = Client(guess)
                /\ \A i \in DOMAIN netOps : netOps[i].kind # "fetch"
           ELSE /\ Len(sockets) = 2
                /\ sockets[2] = Socket(UrlText(DiscoveredUrl), "open")
                /\ cresult = Client(UrlText(DiscoveredUrl))
                /\ \E i \in DOMAIN heard :
                      heard[i].from \in {"fetch1", "fetch2"} /\ heard[i].what = "url"

\* C11 witness: the scheme-substituted attempt failed, the document was found
\* at the well-known path, and the client is on its webSocketDebuggerUrl.
C11_Witness ==
    /\ cpc = "connected"
    /\ IsHttp(endpoint)
    /\ sockets[1].state # "open"
    /\ heard[Len(heard) - 1] = Heard("fetch2", "url")
    /\ cresult = Client(UrlText(DiscoveredUrl))

\* The step is the connect timer of the connectWebSocket at `stage` firing.
TimedOut(stage) == heard' = Append(heard, Heard(stage, "timeout"))

\* The message ends with the text of the connect-timeout error.
ReportsConnectTimeout(message) ==
    /\ Len(message) > 0
    /\ message[Len(message)] = Part("", "WebSocket connect timeout")

\* C12: when the connect timer of a WebSocket open attempt fires, the socket
\* is closed, the attempt is rejected, and the error connect reports to its
\* caller is the connect-timeout error.
C12_TimeoutAlwaysReported ==
    [][ \A stage \in WsStages :
          TimedOut(stage) =>
             /\ sockets'[Len(sockets')].state = "closed"
             /\ cpc' = "failed"
             /\ cresult'.status = "error"
             /\ ReportsConnectTimeout(cresult'.message) ]_vars

\* connect has returned a client or rejected.
ConnectSettled == cpc \in {"connected", "failed"}

\* A timer is armed that ends the present wait of connect: the connect timer
\* of connectWebSocket or the abort timer of a fetch.
TimerArmed ==
    \/ ENABLED wsTimeout
    \/ ENABLED fetchFirst("abort")
    \/ ENABLED fetchSecond("abort")
    \/ ENABLED localFetch("abort")

\* C13: while connect has not settled, it is either about to run (its first
\* synchronous part) or waiting with a timer armed that ends the wait, so no
\* reachable state leaves it waiting on the outside world alone.
C13_EveryWaitHasTimer ==
    ~ConnectSettled => (ENABLED connectStart \/ TimerArmed)

\* The text `part` occurs in `message`. Of the texts considered none is a
\* proper part of another that the same reply carries.
Contains(message, part) == message = part

\* The evaluate call has ended and its Runtime.evaluate command was answered
\* with a result object.
EvalAnswered ==
    /\ ev.pc = "done"
    /\ calls[ev.call].method = "Runtime.evaluate"
    /\ promise[ev.call].state = "resolved"

\* C14 as stated: when the reply to Runtime.evaluate carries exceptionDetails,
\* evaluate / evaluateInFrame rejects with a message that contains
\* exceptionDetails.text; otherwise it returns result.value.
C14_MessageContainsText ==
    EvalAnswered =>
        LET b == BodyOf(promise[ev.call].value)
        IN IF b.details
           THEN ev.outcome.state = "rejected" /\ Contains(ev.outcome.value, b.text)
           ELSE ev.outcome = Resolved(b.value)

\* C14: when the reply to Runtime.evaluate carries exceptionDetails, evaluate
\* / evaluateInFrame rejects, with the description of the exception object as
\* message when there is one and with exceptionDetails.text otherwise; when
\* the reply carries no exceptionDetails it returns result.value.
C14_MessageIsDescriptionOrText ==
    EvalAnswered =>
        LET b == BodyOf(promise[ev.call].value)
        IN IF b.details
           THEN /\ ev.outcome.state = "rejected"
                /\ IF b.description # ""
                   THEN ev.outcome.value = b.description
                   ELSE Contains(ev.outcome.value, b.text)
           ELSE ev.outcome = Resolved(b.value)

\* C14 witness: evaluateInFrame ended with the text of the exceptionDetails
\* of its reply, which carried no exception object.
C14_Witness ==
    /\ EvalAnswered
    /\ ev.fn = "evaluateInFrame"
    /\ promise[ev.call].value = "text-only"
    /\ ev.outcome = Rejected("Uncaught ReferenceError: x is not defined")

\* The text mentions the value v of a credential. A message is put together
\* from parts of the endpoint and fixed texts, so it differs between two
\* endpoints that differ in a credential's value only if it mentions it.
Mentions(text, v) == \E i \in DOMAIN text : text[i].value = v

\* C15: no error connect fails with depends on the value of a credential in
\* the endpoint: its message does not mention the credential's value, on the
\* configured-endpoint path and on the local path.
C15_MessageFreeOfCredential ==
    cpc = "failed" => ~Mentions(cresult.message, CredentialValue)

\* The lookup of the endpoint's hostname has failed.
ResolutionFailed == \E i \in DOMAIN heard : heard[i].from = "dns" /\ heard[i].what # "ok"

\* C16: once the lookup of the endpoint's hostname has failed, with whatever
\* resolver error, connect has rejected with the error labelled as a DNS
\* failure and has started neither a WebSocket open nor an HTTP fetch.
C16_ResolutionFailureLabelled ==
    ResolutionFailed =>
        /\ cpc = "failed"
        /\ cresult = Failure(FailedToConnect(endpoint, DnsMessage(Hostname(endpoint))))
        /\ \A i \in DOMAIN netOps : netOps[i].kind = "dns"

\* C17: when connect has settled, every socket of an attempt that failed (by
\* the connect timer or by the error event) has been closed; the only socket
\* not closed is the one of the client connect returned.
C17_FailedSocketsClosed ==
    ConnectSettled =>
        \A i \in DOMAIN sockets :
           \/ sockets[i].state = "closed"
           \/ cpc = "connected" /\ i = Len(sockets) /\ sockets[i].state = "open"

\* C18: the dispatch of an event returns, and every handler that was
\* registered for the method when it began and is registered when it ends
\* (not removed, or removed and registered again by itself) was called
\* exactly once for that event.
C18_DispatchSafeUnderMutation ==
    [][ WasEvent(last') =>
          /\ ~hung'
          /\ \A h \in Registered(eventHandlers, last'.frame.method) :
                h \in Registered(eventHandlers', last'.frame.method) =>
                   Count(delivered', h) = 1 ]_vars

\* C19: a frame whose id matches a pending entry settles that call, removes
\* the entry and reaches no handler, whether or not it carries a method; any
\* other frame that carries a method settles nothing, leaves every entry and
\* timer in place, and calls each handler registered for the method once and
\* no other, with the frame's params ({} when absent) and sessionId (null
\* when absent), raising nothing also when no handler is registered; every
\* other frame settles nothing and calls no handler.
C19_OneRoutePerFrame ==
    [][ last'.op = "message" =>
          LET f == last'.frame
              matched == f.json = "object" /\ f.id \in DOMAIN callbacks
          IN IF matched
             THEN /\ f.id \notin DOMAIN callbacks'
                  /\ promise'[callbacks[f.id]].state # "pending"
                  /\ \A k \in DOMAIN callbacks :
                        k # f.id => k \in DOMAIN callbacks' /\ promise'[callbacks[k]] = promise[callbacks[k]]
                  /\ delivered' = << >>
             ELSE /\ UNCHANGED <<callbacks, timers, promise, settles>>
                  /\ IF f.json = "object" /\ f.method # ""
                     THEN /\ \A h \in Handlers :
                               Count(delivered', h) =
                                  IF h \in Registered(eventHandlers, f.method) THEN 1 ELSE 0
                          /\ \A i \in DOMAIN delivered' :
                               /\ delivered'[i].params = (IF f.params = "" THEN "{}" ELSE f.params)
                               /\ delivered'[i].sessionId =
                                     (IF f.sessionId = "" THEN "null" ELSE f.sessionId)
                          /\ ~escaped'
                     ELSE delivered' = << >> ]_vars

\* C19 witness: a frame carrying both the id of a pending call and a method
\* with a registered handler has settled the call and reached no handler.
C19_Witness ==
    /\ last.op = "message"
    /\ last.frame.method = "m1"
    /\ last.frame.id # 0
    /\ last.call # 0
    /\ promise[last.call] = Resolved(last.frame.result)
    /\ Registered(eventHandlers, "m1") # {}
    /\ delivered = << >>

\* C20: a promise once settled never changes; the step of a call's reply
\* frame or timer that finds the call's entry settles the call, removes the
\* entry and leaves no timer for it; an entry once removed never returns, so
\* the later of the two finds none: a frame with that id then changes no
\* entry, timer, promise or counter; and after every step a timer is armed
\* only for a call whose identifier has its pending entry.
C20_SettledOnceTimerOnlyIfPending ==
    [][ /\ \A n \in DOMAIN calls :
              /\ promise[n].state # "pending" => promise'[n] = promise[n]
              /\ (last'.op \in {"message", "timeout"} /\ last'.call = n) =>
                    /\ calls[n].msgId \in DOMAIN callbacks
                    /\ calls[n].msgId \notin DOMAIN callbacks'
                    /\ n \notin timers'
                    /\ promise'[n].state # "pending"
                    /\ settles'[n] = settles[n] + 1
              /\ calls[n].msgId \notin DOMAIN callbacks =>
                    /\ calls[n].msgId \notin DOMAIN callbacks'
                    /\ n \notin timers
                    /\ settles'[n] = settles[n]
                    /\ (last'.op = "message" /\ last'.frame.id = calls[n].msgId) =>
                          UNCHANGED <<callbacks, timers, promise, settles>>
        /\ \A n \in timers' :
              /\ calls'[n].msgId \in DOMAIN callbacks'
              /\ callbacks'[calls'[n].msgId] = n ]_vars

\* C20 witness: the reply of a call settled it and removed its entry and
\* timer, and a second frame with the same id has just arrived and done
\* nothing.
C20_Witness ==
    /\ last.op = "message"
    /\ last.call = 0
    /\ \E n \in DOMAIN calls :
          /\ last.frame.id = calls[n].msgId
          /\ promise[n] = Resolved(ResultOf(calls[n].msgId))
          /\ settles[n] = 1
          /\ n \notin timers
          /\ calls[n].msgId \notin DOMAIN callbacks

\* C21: after every step the handler map holds for each of its methods at
\* least one handler and each handler once; on() leaves the method with an
\* entry, and changes nothing when the handler is already registered for it;
\* off() changes nothing when the method has no entry or the handler is not
\* registered for it, and removes the entry when it takes the last handler.
C21_HandlerMapWellFormed ==
    [][ /\ \A m \in DOMAIN eventHandlers' :
              /\ Len(eventHandlers'[m]) > 0
              /\ Cardinality(Range(eventHandlers'[m])) = Len(eventHandlers'[m])
        /\ last'.op = "on" =>
              /\ last'.method \in DOMAIN eventHandlers'
              /\ last'.arg \in Registered(eventHandlers, last'.method) =>
                    UNCHANGED eventHandlers
        /\ last'.op = "off" =>
              /\ last'.arg \notin Registered(eventHandlers, last'.method) =>
                    UNCHANGED eventHandlers
              /\ Registered(eventHandlers, last'.method) = {last'.arg} =>
                    last'.method \notin DOMAIN eventHandlers' ]_vars

\* C21 witness: off() has just taken the last handler of a method, whose
\* entry is gone, while the other method keeps its two handlers.
C21_Witness ==
    /\ last.op = "off"
    /\ last.method = "m1"
    /\ DOMAIN eventHandlers = {"m2"}
    /\ Len(eventHandlers["m2"]) = 2

\* C22: evaluateInFrame first sends Page.createIsolatedWorld for the given
\* frame and session; while that command is unsettled no other command is
\* sent; Runtime.evaluate is sent only once that command has resolved, with
\* the executionContextId of its result, the given expression and the same
\* session; when that command is rejected (remote error or timeout),
\* Runtime.evaluate is never sent and evaluateInFrame rejects with that error.
C22_WorldBeforeEvaluate ==
    ev.fn = "evaluateInFrame" =>
        /\ Len(ev.sent) >= 1
        /\ ev.sent[1] = Sent("Page.createIsolatedWorld", "", "", ev.frameId,
                             ev.sessionId, "default")
        /\ calls[1].method = "Page.createIsolatedWorld"
        /\ Len(calls) = Len(ev.sent)
        /\ promise[1].state = "pending" => (ev.pc = "world" /\ Len(calls) = 1)
        /\ promise[1].state = "rejected" =>
              /\ Len(calls) = 1
              /\ ev.pc = "done" => ev.outcome = promise[1]
        /\ Len(calls) = 2 =>
              /\ promise[1].state = "resolved"
              /\ calls[2].method = "Runtime.evaluate"
              /\ ev.sent[2] = Sent("Runtime.evaluate", ev.expression,
                                   ContextId(promise[1].value), "", ev.sessionId, "given")

\* C22 witness: evaluateInFrame has returned the value of an evaluation made
\* in the context its first command created.
C22_Witness ==
    /\ ev.fn = "evaluateInFrame"
    /\ ev.pc = "done"
    /\ Len(ev.sent) = 2
    /\ promise[1] = Resolved("world-c1")
    /\ ev.sent[2].contextId = "c1"
    /\ ev.outcome = Resolved("42")

\* C23: when armed timers eventually fire, every send call is eventually
\* resolved or rejected and its pending entry eventually removed, whatever
\* the remote side sends or does not send and whether or not close() was
\* called; so the pending map is empty again after every state in which it
\* is not.
C23_EverySendSettles ==
    /\ \A n \in CallIds :
          (n \in DOMAIN calls) ~>
             ( /\ n \in DOMAIN calls
               /\ promise[n].state # "pending"
               /\ calls[n].msgId \notin DOMAIN callbacks )
    /\ (DOMAIN callbacks # {}) ~> (DOMAIN callbacks = {})

\* C23 witness: after close() and without any frame for it, a call has been
\* rejected by its timer and nothing is pending.
C23_Witness ==
    /\ last.op = "timeout"
    /\ ws \in {"closing", "closed"}
    /\ promise[last.call] = Rejected("CDP timeout: m1")
    /\ settles[last.call] = 1
    /\ DOMAIN callbacks = {}

\* The network operations of connect after the hostname check, and the
\* fetches among them.
Steps == SelectSeq(netOps, LAMBDA o : o.kind # "dns")
Fetches == SelectSeq(netOps, LAMBDA o : o.kind = "fetch")

\* The scheme-substituted attempt has failed: no WebSocket implementation,
\* the socket's error event, or the connect timer.
GuessFailed ==
    \/ wsImpl = "none"
    \/ \E i \in DOMAIN heard :
          heard[i] \in {Heard("ws_guess", "error"), Heard("ws_guess", "timeout")}

\* C24: for an http(s) endpoint the first socket connect opens is to the
\* scheme-substituted URL (path /ws for an empty path or /); a fetch is
\* started only after that attempt has failed; the URL as given is fetched
\* before the URL with /json/version appended; and once a step has produced
\* a client nothing further is started.
C24_GuessThenDiscovery ==
    /\ [](IsHttp(endpoint) =>
            /\ (wsImpl # "none" /\ Steps # << >>) =>
                  /\ Steps[1] = NetOp("ws", UrlText(guessWsFromHttp(endpoint)))
                  /\ Pathname(endpoint) \in {"", "/"} =>
                        guessWsFromHttp(endpoint).path = "/ws"
                  /\ guessWsFromHttp(endpoint).scheme =
                        (IF endpoint.scheme = "http" THEN "ws" ELSE "wss")
            /\ Fetches # << >> => GuessFailed
            /\ Len(Fetches) <= 2
            /\ Len(Fetches) >= 1 => Fetches[1] = NetOp("fetch", UrlText(endpoint))
            /\ Len(Fetches) = 2 =>
                  Fetches[2] = NetOp("fetch", UrlText(joinUrl(endpoint)))
            /\ cresult.status = "client" =>
                  /\ netOps[Len(netOps)] = NetOp("ws", cresult.url)
                  /\ heard[Len(heard)].what = "open"
                  /\ heard[Len(heard)].from = "ws_guess" => Fetches = << >>)
    /\ [][(IsHttp(endpoint) /\ cresult.status = "client") =>
            UNCHANGED <<netOps, sockets, cresult, heard>>]_vars

\* C24 witness: the scheme-substituted attempt failed, the URL as given had
\* no debugger URL, the /json/version document had one and its socket opened.
C24_Witness ==
    /\ IsHttp(endpoint)
    /\ cresult = Client(UrlText(DiscoveredUrl))
    /\ Len(Fetches) = 2
    /\ Len(sockets) = 2
    /\ sockets[1].url = UrlText(guessWsFromHttp(endpoint))
    /\ sockets[1].state \in {"error", "closed"}
    /\ Heard("fetch1", "nofield") \in {heard[i] : i \in DOMAIN heard}

\* C25: a call whose write raised inside send is rejected with that error
\* and has neither a pending entry nor an armed timer from then on; every
\* entry of the pending map belongs to a call that is still unsettled.
C25_FailedWriteLeavesNothing ==
    /\ \A n \in DOMAIN calls :
          (last.op = "send" /\ last.call = n /\ last.arg = "throw") =>
             promise[n] = Rejected(WriteError)
    /\ \A n \in DOMAIN calls :
          promise[n] = Rejected(WriteError) =>
             /\ calls[n].msgId \notin DOMAIN callbacks
             /\ n \notin timers
    /\ \A k \in DOMAIN callbacks : promise[callbacks[k]].state = "pending"

====
